---- MODULE Spec2Model ----
(***************************************************************************)
(* Model of csr-pipes/src/vector_add.cpp: the host program (main) that     *)
(* feeds two read-streaming host pipes, launches SimpleVAddKernel once,    *)
(* waits for it and reads the single result from the CSR output pipe, and  *)
(* the kernel body that drains the two input pipes and writes the total.   *)
(***************************************************************************)
EXTENDS Integers, Sequences, FiniteSets, TLC

\* ---------------------------------------------------------------- bounds
\* Largest small vector size explored besides the shipped kVectorSize.
MaxCount == 3
\* Largest len handed to a stand-alone kernel invocation.
MaxLen == 2
\* Largest number of values queued on an input pipe before a stand-alone
\* kernel invocation.
MaxQueue == 2

\* ------------------------------------------------------------- constants
kVectorSize == 256
INT_MAX == 2147483647
INT_MIN == (-INT_MAX) - 1
EXIT_SUCCESS == 0
EXIT_FAILURE == 1

\* Vector sizes the harness is run with (line 81 assigns kVectorSize; the
\* source notes that the size could be a run-time variable).
Counts == (0..MaxCount) \cup {kVectorSize}

\* Values that may be queued on an input pipe of a stand-alone invocation.
Vals == {-1, 1, 2, INT_MAX, INT_MIN}

\* Values the CSR output register may deliver to the host read.
DeviceVals == {0, 1, 4, 5, 9, -1, INT_MIN, kVectorSize * kVectorSize}

\* All sequences over S of length at most n.
SeqsUpTo(S, n) == UNION {[1..k -> S] : k \in 0..n}

\* ------------------------------------------------------------ arithmetic
\* 32-bit int addition.  Every build of the sample (x86 emulator, simulator,
\* FPGA adder) yields the two's-complement wrapped result on overflow.
AddInt(x, y) ==
  IF y > 0 /\ x > INT_MAX - y
    THEN ((x - INT_MAX) - 1) + ((y - INT_MAX) - 1)
    ELSE IF y < 0 /\ x < INT_MIN - y
      THEN ((x + INT_MAX) + 1) + ((y + INT_MAX) + 1)
      ELSE x + y

\* 32-bit int subtraction of small operands (count - i).
SubInt(x, y) == x - y

\* Variant of PairSum that forgets the second operand.
PairSumDropB(x, y) == x

\* int sum = a_val + b_val;
PairSum(x, y) == AddInt(x, y)

\* Variant of Accumulate that assigns instead of adding.
AccumulateAssign(total, s) == s

\* Variant of Accumulate for an accumulator declared short: the total is
\* kept in 16 bits.
AccumulateShort(total, s) == (((total + s) + (2 ^ 15)) % (2 ^ 16)) - (2 ^ 15)

\* sum_total += sum;
Accumulate(total, s) == AddInt(total, s)

\* Variants of KernelLoopCond: one iteration too many, one too few.
KernelLoopCondLong(k, n) == k <= n
KernelLoopCondShort(k, n) == k + 1 < n

\* idx < len
KernelLoopCond(k, n) == k < n

\* Variant of FillLoopCond that stops one element early.
FillLoopCondShort(k, n) == k + 1 < n

\* i < count
FillLoopCond(k, n) == k < n

\* a[i] = i;
AValue(k) == k

\* Variant of BValue that is off by one.
BValueOff(k, n) == SubInt(SubInt(n, k), 1)

\* b[i] = (count - i);
BValue(k, n) == SubInt(n, k)

\* Variant of Mismatch that only notices a result that is too small.
MismatchLess(c, e) == c < e

\* calc != expected_sum
Mismatch(c, e) == c # e

\* passed ? EXIT_SUCCESS : EXIT_FAILURE
ExitCodeOf(p) == IF p THEN EXIT_SUCCESS ELSE EXIT_FAILURE

\* passed ? "PASSED" : "FAILED"
VerdictOf(p) == IF p THEN "PASSED" ELSE "FAILED"

\* ----------------------------------------------------------------- state
VARIABLES
  hpc,          \* host position in main
  count,        \* int count
  i,            \* fill loop index
  a, b,         \* the two heap arrays, as functions on the filled prefix
  heap,         \* which of the arrays are currently allocated
  expected_sum, \* int expected_sum
  passed,       \* bool passed
  calc,         \* int calc
  console,      \* what has been printed so far
  exit_code,    \* <<value returned from main>>, empty until it returns
  pipeA, pipeB, \* InputPipeA / InputPipeB contents, oldest first
  pipeC,        \* OutputPipeC contents
  histA, histB, histC, \* every value ever written to each pipe, in order
  gotA, gotB, gotC,    \* every value ever read from each pipe, in order
  launches,     \* number of single_task submissions
  kpc,          \* kernel position in operator()
  len,          \* SimpleVAddKernel::len
  idx,          \* kernel loop index
  a_val,        \* kernel local a_val
  sum_total     \* kernel local sum_total

hostVars == <<hpc, count, i, a, b, heap, expected_sum, passed, calc,
              console, exit_code>>
kernelVars == <<kpc, len, idx, a_val, sum_total>>
pipeVars == <<pipeA, pipeB, pipeC, histA, histB, histC, gotA, gotB, gotC>>
vars == <<hostVars, kernelVars, pipeVars, launches>>

\* -------------------------------------------------------------- pipes
\* pipe::write appends one value.
PipeWrite(q, v) == Append(q, v)
\* pipe::read is possible only when a value is present.
PipeCanRead(q) == q # <<>>
\* pipe::read returns the oldest value ...
PipeFront(q) == Head(q)
\* ... and removes it.
PipePop(q) == Tail(q)

\* ------------------------------------------------------------------ Init
Init ==
  /\ hpc = "queue"
  /\ count = 0 /\ i = 0
  /\ a = <<>> /\ b = <<>>
  /\ heap = {}
  /\ expected_sum = 0
  /\ passed = TRUE
  /\ calc = 0
  /\ console = <<>>
  /\ exit_code = <<>>
  /\ pipeA = <<>> /\ pipeB = <<>> /\ pipeC = <<>>
  /\ histA = <<>> /\ histB = <<>> /\ histC = <<>>
  /\ gotA = <<>> /\ gotB = <<>> /\ gotC = <<>>
  /\ launches = 0
  /\ kpc = "idle"
  /\ len = 0 /\ idx = 0 /\ a_val = 0 /\ sum_total = 0

\* ---------------------------------------------------------- host: main
\* Line 72: sycl::queue q(selector, fpga_tools::exception_handler);
HostCreateQueue ==
  /\ hpc = "queue"
  /\ hpc' = "device"
  /\ UNCHANGED <<count, i, a, b, heap, expected_sum, passed, calc, console,
                 exit_code, kernelVars, pipeVars, launches>>

\* Lines 74-78: query the device and print its name.
HostPrintDevice ==
  /\ hpc = "device"
  /\ console' = Append(console, "device")
  /\ hpc' = "alloc"
  /\ UNCHANGED <<count, i, a, b, heap, expected_sum, passed, calc,
                 exit_code, kernelVars, pipeVars, launches>>

\* Lines 81-88: count, expected_sum = 0, new int[count] twice, i = 0.
HostAlloc ==
  /\ hpc = "alloc"
  /\ \E n \in Counts : count' = n
  /\ expected_sum' = 0
  /\ a' = <<>> /\ b' = <<>>
  /\ heap' = {"a", "b"}
  /\ i' = 0
  /\ hpc' = "fill"
  /\ UNCHANGED <<passed, calc, console, exit_code, kernelVars, pipeVars,
                 launches>>

\* Lines 88-92: loop test, a[i] = i, b[i] = count - i, expected_sum += ...
\* (array element i is kept at sequence index i + 1).
HostFill ==
  /\ hpc = "fill"
  /\ FillLoopCond(i, count)
  /\ a' = Append(a, AValue(i))
  /\ b' = Append(b, BValue(i, count))
  /\ expected_sum' = AddInt(expected_sum, AddInt(AValue(i), BValue(i, count)))
  /\ hpc' = "writeA"
  /\ UNCHANGED <<count, i, heap, passed, calc, console, exit_code,
                 kernelVars, pipeVars, launches>>

\* Line 95: InputPipeA::write(q, a[i]);
HostWriteA ==
  /\ hpc = "writeA"
  /\ pipeA' = PipeWrite(pipeA, a[i + 1])
  /\ histA' = Append(histA, a[i + 1])
  /\ hpc' = "writeB"
  /\ UNCHANGED <<count, i, a, b, heap, expected_sum, passed, calc, console,
                 exit_code, kernelVars, pipeB, pipeC, histB, histC,
                 gotA, gotB, gotC, launches>>

\* Lines 96, 88: InputPipeB::write(q, b[i]); i++
HostWriteB ==
  /\ hpc = "writeB"
  /\ pipeB' = PipeWrite(pipeB, b[i + 1])
  /\ histB' = Append(histB, b[i + 1])
  /\ i' = i + 1
  /\ hpc' = "fill"
  /\ UNCHANGED <<count, a, b, heap, expected_sum, passed, calc, console,
                 exit_code, kernelVars, pipeA, pipeC, histA, histC,
                 gotA, gotB, gotC, launches>>

\* Lines 88, 99: the fill loop exits and the problem size is printed.
HostFillDone ==
  /\ hpc = "fill"
  /\ ~FillLoopCond(i, count)
  /\ console' = Append(console, "size")
  /\ hpc' = "launch"
  /\ UNCHANGED <<count, i, a, b, heap, expected_sum, passed, calc,
                 exit_code, kernelVars, pipeVars, launches>>

\* Line 101: q.single_task<IDSimpleVAdd>(SimpleVAddKernel{count});
\* the kernel object is built with len = count and starts at its first
\* statement (line 39: sum_total = 0, idx = 0).
HostLaunch ==
  /\ hpc = "launch"
  /\ len' = count
  /\ sum_total' = 0
  /\ idx' = 0
  /\ kpc' = "loop"
  /\ launches' = launches + 1
  /\ hpc' = "wait"
  /\ UNCHANGED <<count, i, a, b, heap, expected_sum, passed, calc, console,
                 exit_code, a_val, pipeVars>>

\* Lines 106-107: e.wait() returns once the kernel has finished;
\* bool passed = true.
HostWait ==
  /\ hpc = "wait"
  /\ kpc = "done"
  /\ passed' = TRUE
  /\ hpc' = "read"
  /\ UNCHANGED <<count, i, a, b, heap, expected_sum, calc, console,
                 exit_code, kernelVars, pipeVars, launches>>

\* Line 110: int calc = OutputPipeC::read(q);
HostRead ==
  /\ hpc = "read"
  /\ PipeCanRead(pipeC)
  /\ calc' = PipeFront(pipeC)
  /\ pipeC' = PipePop(pipeC)
  /\ gotC' = Append(gotC, PipeFront(pipeC))
  /\ hpc' = "compare"
  /\ UNCHANGED <<count, i, a, b, heap, expected_sum, passed, console,
                 exit_code, kernelVars, pipeA, pipeB, histA, histB, histC,
                 gotA, gotB, launches>>

\* Lines 111-115: on a mismatch print the two values and clear passed.
HostCompare ==
  /\ hpc = "compare"
  /\ IF Mismatch(calc, expected_sum)
       THEN /\ console' = Append(console, "result")
            /\ passed' = FALSE
       ELSE UNCHANGED <<console, passed>>
  /\ hpc' = "print"
  /\ UNCHANGED <<count, i, a, b, heap, expected_sum, calc, exit_code,
                 kernelVars, pipeVars, launches>>

\* Line 117: print PASSED or FAILED.
HostPrintVerdict ==
  /\ hpc = "print"
  /\ console' = Append(console, VerdictOf(passed))
  /\ hpc' = "free"
  /\ UNCHANGED <<count, i, a, b, heap, expected_sum, passed, calc,
                 exit_code, kernelVars, pipeVars, launches>>

\* Variant of HostFree that forgets delete[] b.
HostFreeOnlyA ==
  /\ hpc = "free"
  /\ heap' = heap \ {"a"}
  /\ hpc' = "return"
  /\ UNCHANGED <<count, i, a, b, expected_sum, passed, calc, console,
                 exit_code, kernelVars, pipeVars, launches>>

\* Lines 119-120: delete[] a; delete[] b;
HostFree ==
  /\ hpc = "free"
  /\ heap' = heap \ {"a", "b"}
  /\ hpc' = "return"
  /\ UNCHANGED <<count, i, a, b, expected_sum, passed, calc, console,
                 exit_code, kernelVars, pipeVars, launches>>

\* Line 122: return passed ? EXIT_SUCCESS : EXIT_FAILURE;
HostReturn ==
  /\ hpc = "return"
  /\ exit_code' = <<ExitCodeOf(passed)>>
  /\ hpc' = "done"
  /\ UNCHANGED <<count, i, a, b, heap, expected_sum, passed, calc, console,
                 kernelVars, pipeVars, launches>>

\* The statements of the try block that call into the SYCL runtime and may
\* therefore throw sycl::exception (lines 72, 74-78, 95, 96, 101, 106, 110).
FaultSteps == {"queue", "device", "writeA", "writeB", "launch", "wait", "read"}

\* A sycl::exception thrown by the current runtime call: control moves to
\* the catch clause of line 124.
HostFault ==
  /\ hpc \in FaultSteps
  /\ hpc' = "caught"
  /\ UNCHANGED <<count, i, a, b, heap, expected_sum, passed, calc, console,
                 exit_code, kernelVars, pipeVars, launches>>

\* Variant of HostTerminate in which the handler falls out of the catch
\* clause and main returns a failure code.
HostTerminateReturns ==
  /\ hpc = "caught"
  /\ console' = Append(console, "diagnostic")
  /\ exit_code' = <<EXIT_FAILURE>>
  /\ hpc' = "done"
  /\ UNCHANGED <<count, i, a, b, heap, expected_sum, passed, calc,
                 kernelVars, pipeVars, launches>>

\* Lines 124-131: print the diagnostic and std::terminate().
HostTerminate ==
  /\ hpc = "caught"
  /\ console' = Append(console, "diagnostic")
  /\ hpc' = "terminated"
  /\ UNCHANGED <<count, i, a, b, heap, expected_sum, passed, calc,
                 exit_code, kernelVars, pipeVars, launches>>

\* ------------------------------------- kernel: SimpleVAddKernel::operator()
\* The device keeps executing as long as the host process exists.
ProcessAlive == hpc # "terminated"

\* Line 40: the loop test; falls through to the write when it fails.
KernelLoop ==
  /\ ProcessAlive
  /\ kpc = "loop"
  /\ kpc' = IF KernelLoopCond(idx, len) THEN "readA" ELSE "write"
  /\ UNCHANGED <<hostVars, len, idx, a_val, sum_total, pipeVars, launches>>

\* Variant of KernelReadA that reads a_val from InputPipeB.
KernelReadAFromB ==
  /\ hpc # "terminated"
  /\ kpc = "readA"
  /\ pipeB # <<>>
  /\ a_val' = Head(pipeB)
  /\ pipeB' = Tail(pipeB)
  /\ gotB' = Append(gotB, Head(pipeB))
  /\ kpc' = "readB"
  /\ UNCHANGED <<hostVars, len, idx, sum_total, pipeA, pipeC,
                 histA, histB, histC, gotA, gotC, launches>>

\* Line 41: int a_val = InputPipeA::read();  blocks while the pipe is empty.
KernelReadA ==
  /\ ProcessAlive
  /\ kpc = "readA"
  /\ PipeCanRead(pipeA)
  /\ a_val' = PipeFront(pipeA)
  /\ pipeA' = PipePop(pipeA)
  /\ gotA' = Append(gotA, PipeFront(pipeA))
  /\ kpc' = "readB"
  /\ UNCHANGED <<hostVars, len, idx, sum_total, pipeB, pipeC,
                 histA, histB, histC, gotB, gotC, launches>>

\* Variant of KernelReadB that uses a non-blocking read yielding 0 when the
\* pipe is empty.
KernelReadBNonBlocking ==
  /\ hpc # "terminated"
  /\ kpc = "readB"
  /\ LET v == IF pipeB = <<>> THEN 0 ELSE Head(pipeB)
     IN  /\ sum_total' = AddInt(sum_total, AddInt(a_val, v))
         /\ gotB' = IF pipeB = <<>> THEN gotB ELSE Append(gotB, v)
  /\ pipeB' = IF pipeB = <<>> THEN pipeB ELSE Tail(pipeB)
  /\ idx' = idx + 1
  /\ kpc' = "loop"
  /\ UNCHANGED <<hostVars, len, a_val, pipeA, pipeC,
                 histA, histB, histC, gotA, gotC, launches>>

\* Lines 42-45, 40: int b_val = InputPipeB::read(); sum = a_val + b_val;
\* sum_total += sum; idx++
KernelReadB ==
  /\ ProcessAlive
  /\ kpc = "readB"
  /\ PipeCanRead(pipeB)
  /\ sum_total' = Accumulate(sum_total, PairSum(a_val, PipeFront(pipeB)))
  /\ pipeB' = PipePop(pipeB)
  /\ gotB' = Append(gotB, PipeFront(pipeB))
  /\ idx' = idx + 1
  /\ kpc' = "loop"
  /\ UNCHANGED <<hostVars, len, a_val, pipeA, pipeC,
                 histA, histB, histC, gotA, gotC, launches>>

\* Variant of KernelWrite that performs the write a second time.
KernelWriteTwice ==
  /\ hpc # "terminated"
  /\ kpc = "write"
  /\ pipeC' = Append(pipeC, sum_total)
  /\ histC' = Append(histC, sum_total)
  /\ kpc' = IF histC = <<>> THEN "write" ELSE "done"
  /\ UNCHANGED <<hostVars, len, idx, a_val, sum_total, pipeA, pipeB,
                 histA, histB, gotA, gotB, gotC, launches>>

\* Variant of KernelWrite for a pipe declared with avalon_mm_uses_ready:
\* the write waits until the host is ready to read.
KernelWriteUsesReady ==
  /\ hpc # "terminated"
  /\ kpc = "write"
  /\ hpc = "read"
  /\ pipeC' = Append(pipeC, sum_total)
  /\ histC' = Append(histC, sum_total)
  /\ kpc' = "done"
  /\ UNCHANGED <<hostVars, len, idx, a_val, sum_total, pipeA, pipeB,
                 histA, histB, gotA, gotB, gotC, launches>>

\* Line 51: OutputPipeC::write(sum_total);  never waits for a reader.
KernelWrite ==
  /\ ProcessAlive
  /\ kpc = "write"
  /\ pipeC' = PipeWrite(pipeC, sum_total)
  /\ histC' = Append(histC, sum_total)
  /\ kpc' = "done"
  /\ UNCHANGED <<hostVars, len, idx, a_val, sum_total, pipeA, pipeB,
                 histA, histB, gotA, gotB, gotC, launches>>

\* ------------------------------------------------- the whole program
HostNext ==
  \/ HostCreateQueue
  \/ HostPrintDevice
  \/ HostAlloc
  \/ HostFill
  \/ HostWriteA
  \/ HostWriteB
  \/ HostFillDone
  \/ HostLaunch
  \/ HostWait
  \/ HostRead
  \/ HostCompare
  \/ HostPrintVerdict
  \/ HostFree
  \/ HostReturn
  \/ HostFault
  \/ HostTerminate

KernelNext ==
  \/ KernelLoop
  \/ KernelReadA
  \/ KernelReadB
  \/ KernelWrite

Next == HostNext \/ KernelNext

Spec == Init /\ [][Next]_vars

\* ------------------------------------- the kernel invoked on its own
\* One invocation of SimpleVAddKernel{n} by a caller that queued arbitrary
\* values on the two input pipes beforehand, writes nothing afterwards and
\* is blocked waiting for completion.
KernelInit ==
  /\ hpc = "wait"
  /\ count = 0 /\ i = 0
  /\ a = <<>> /\ b = <<>>
  /\ heap = {}
  /\ expected_sum = 0
  /\ passed = TRUE
  /\ calc = 0
  /\ console = <<>>
  /\ exit_code = <<>>
  /\ pipeA \in SeqsUpTo(Vals, MaxQueue)
  /\ pipeB \in SeqsUpTo(Vals, MaxQueue)
  /\ pipeC = <<>>
  /\ histA = pipeA /\ histB = pipeB /\ histC = <<>>
  /\ gotA = <<>> /\ gotB = <<>> /\ gotC = <<>>
  /\ launches = 1
  /\ kpc = "loop"
  /\ len \in 0..MaxLen
  /\ idx = 0 /\ a_val = 0 /\ sum_total = 0

KernelSpec == KernelInit /\ [][KernelNext]_vars

\* ---------------------- the harness with an arbitrary device result
\* expected_sum as the fill loop of lines 88-97 leaves it for count = n:
\* the wrapped sum of a[k] + b[k] over k in [lo, hi), split in halves to
\* keep the evaluation shallow (32-bit wrapped addition is associative).
RECURSIVE ExpectedRange(_, _, _)
ExpectedRange(lo, hi, n) ==
  IF hi - lo <= 0 THEN 0
  ELSE IF hi - lo = 1 THEN AddInt(AValue(lo), BValue(lo, n))
  ELSE LET mid == lo + ((hi - lo) \div 2)
       IN  AddInt(ExpectedRange(lo, mid, n), ExpectedRange(mid, hi, n))

ExpectedAfter(n) == ExpectedRange(0, n, n)

\* The arrays as the fill loop leaves them.
FilledA(n) == [k \in 1..n |-> AValue(k - 1)]
FilledB(n) == [k \in 1..n |-> BValue(k - 1, n)]

\* The host right after e.wait() has returned (line 106), with the output
\* register holding some value v delivered by the device.
VerifyInit ==
  /\ hpc = "read"
  /\ count \in Counts
  /\ i = count
  /\ a = FilledA(count) /\ b = FilledB(count)
  /\ heap = {"a", "b"}
  /\ expected_sum = ExpectedAfter(count)
  /\ passed = TRUE
  /\ calc = 0
  /\ console = <<"device", "size">>
  /\ exit_code = <<>>
  /\ pipeA = <<>> /\ pipeB = <<>>
  /\ \E v \in DeviceVals :
       /\ pipeC = <<v>> /\ histC = <<v>> /\ sum_total = v
  /\ histA = a /\ histB = b
  /\ gotA = a /\ gotB = b /\ gotC = <<>>
  /\ launches = 1
  /\ kpc = "done"
  /\ len = count /\ idx = count
  /\ a_val = IF count = 0 THEN 0 ELSE AValue(count - 1)

HarnessSpec == (Init \/ VerifyInit) /\ [][Next]_vars

\* =================================================================
\* Properties
\* =================================================================
\* TRUE iff token t has been printed.
Printed(t) == \E k \in 1..Len(console) : console[k] = t

\* The host positions that follow the return of e.wait().
AfterWait == {"read", "compare", "print", "free", "return", "done"}

\* C1: the output pipe is written exactly once (by the kernel, after its
\* loop) and read exactly once (by the host) in every run that completes
\* without a fault; reads never exceed writes and neither count reaches 2.
C1_OutputOnce ==
  /\ Len(gotC) <= Len(histC)
  /\ Len(histC) <= 1
  /\ Len(gotC) <= 1
  /\ (Len(histC) = 1 => kpc = "done" /\ ~KernelLoopCond(idx, len))
  /\ (Len(gotC) = 1 => hpc \in {"compare", "print", "free", "return", "done"})
  /\ (hpc = "done" => Len(histC) = 1 /\ Len(gotC) = 1)

C1_Witness ==
  /\ hpc = "done"
  /\ count = kVectorSize
  /\ Len(histC) = 1 /\ Len(gotC) = 1

\* C2: all count writes to each input pipe precede the single kernel launch,
\* the host blocks until the kernel has completed, and only then reads the
\* output pipe and compares; no input write follows the launch and the
\* kernel is never launched twice.
C2_EventOrder ==
  /\ [](launches <= 1)
  /\ [](launches = 1 => Len(histA) = count /\ Len(histB) = count)
  /\ [][launches >= 1 => histA' = histA /\ histB' = histB]_vars
  /\ [][launches' # launches =>
          launches = 0 /\ launches' = 1 /\ hpc = "launch" /\ hpc' = "wait"]_vars
  /\ [][hpc = "wait" /\ hpc' \in AfterWait => kpc = "done"]_vars
  /\ [](hpc \in AfterWait => launches = 1 /\ kpc = "done")
  /\ [](Len(gotC) > 0 => hpc \in AfterWait)
  /\ [](hpc \in {"print", "free", "return", "done"} => Len(gotC) = 1)

C2_Witness ==
  /\ hpc = "done"
  /\ launches = 1
  /\ count = kVectorSize
  /\ Len(histA) = kVectorSize /\ Len(histB) = kVectorSize

\* C3: main returns EXIT_SUCCESS if and only if the single value read from
\* the output pipe equals the expected sum accumulated while filling.
C3_ExitCode ==
  hpc = "done" =>
    /\ Len(gotC) = 1
    /\ calc = gotC[1]
    /\ expected_sum = ExpectedAfter(count)
    /\ exit_code \in {<<EXIT_SUCCESS>>, <<EXIT_FAILURE>>}
    /\ (exit_code = <<EXIT_SUCCESS>> <=> gotC[1] = expected_sum)

C3_Witness ==
  /\ hpc = "done"
  /\ count = kVectorSize
  /\ exit_code = <<EXIT_SUCCESS>>
  /\ gotC = <<expected_sum>>

\* ---------------------------------------------- sums without overflow
\* TRUE iff the int addition x + y leaves the signed 32-bit range.
Overflows(x, y) ==
  \/ (y > 0 /\ x > INT_MAX - y)
  \/ (y < 0 /\ x < INT_MIN - y)

\* The sum of the first k pairs, as an unbounded integer; evaluated only
\* where NoOverflow holds for the same prefix.
RECURSIVE SumPairs(_, _, _)
SumPairs(as, bs, k) ==
  IF k = 0 THEN 0 ELSE SumPairs(as, bs, k - 1) + (as[k] + bs[k])

\* TRUE iff neither a pair sum nor a running total of the first k pairs
\* leaves the signed 32-bit range.
RECURSIVE NoOverflow(_, _, _)
NoOverflow(as, bs, k) ==
  \/ k = 0
  \/ /\ NoOverflow(as, bs, k - 1)
     /\ ~Overflows(as[k], bs[k])
     /\ ~Overflows(SumPairs(as, bs, k - 1), as[k] + bs[k])

\* The unbounded sum of the first k pairs, kept as two limbs of 16 bits so
\* that it can be compared with an int even where it exceeds the int range.
Hi(v) == v \div (2 ^ 16)
Lo(v) == v % (2 ^ 16)

RECURSIVE SumHi(_, _, _)
SumHi(as, bs, k) ==
  IF k = 0 THEN 0 ELSE SumHi(as, bs, k - 1) + Hi(as[k]) + Hi(bs[k])

RECURSIVE SumLo(_, _, _)
SumLo(as, bs, k) ==
  IF k = 0 THEN 0 ELSE SumLo(as, bs, k - 1) + Lo(as[k]) + Lo(bs[k])

\* TRUE iff the int v equals the unbounded sum of the first k pairs.
EqualsExactSum(v, as, bs, k) ==
  /\ Hi(v) = SumHi(as, bs, k) + Hi(SumLo(as, bs, k))
  /\ Lo(v) = Lo(SumLo(as, bs, k))

\* Exactly len values were queued on each input pipe before the invocation.
ExactlyQueued == Len(histA) = len /\ Len(histB) = len

\* Fewer than len values were queued on at least one input pipe.
Shortfall == Len(histA) < len \/ Len(histB) < len

\* C4 (as stated): with exactly N values queued on each input pipe the
\* kernel reads N values from each pipe in FIFO order and writes the
\* mathematical sum of all pairs.
C4_AsStated ==
  (kpc = "done" /\ ExactlyQueued) =>
    /\ gotA = histA /\ gotB = histB
    /\ Len(histC) = 1
    /\ EqualsExactSum(histC[1], histA, histB, len)

\* C4 (amended): the same, provided no pair sum and no running total
\* leaves the signed 32-bit range.
C4_SumOfPairs ==
  /\ ExactlyQueued => (Len(gotA) <= len /\ Len(gotB) <= len)
  /\ (kpc = "done" /\ ExactlyQueued) => (gotA = histA /\ gotB = histB)
  /\ (kpc = "done" /\ ExactlyQueued /\ NoOverflow(histA, histB, len)) =>
       /\ histC = <<SumPairs(histA, histB, len)>>
       /\ EqualsExactSum(histC[1], histA, histB, len)

C4_Witness ==
  /\ kpc = "done"
  /\ ExactlyQueued
  /\ len = 2
  /\ histA[1] # histA[2]
  /\ NoOverflow(histA, histB, len)
  /\ histC = <<SumPairs(histA, histB, len)>>

\* C5: once the fill loop has finished, expected_sum = count * count; for
\* the shipped count of 256 that is 65536.
FillFinished ==
  hpc \in {"launch", "wait"} \cup AfterWait

C5_ExpectedTotal ==
  /\ (hpc = "fill" \/ hpc = "writeA" \/ hpc = "writeB") => i <= count
  /\ FillFinished =>
       /\ i = count
       /\ Len(a) = count /\ Len(b) = count
       /\ \A k \in 1..count : a[k] = k - 1 /\ b[k] = count - (k - 1)
       /\ expected_sum = count * count
       /\ (count = 256 => expected_sum = 65536)

C5_Witness ==
  /\ hpc = "launch"
  /\ count = 256
  /\ expected_sum = 65536

\* C6: the host writes count values to each input pipe before the kernel
\* runs and the kernel reads count values from each, so no kernel read
\* finds its pipe empty and both pipes are empty when the kernel completes.
C6_InputsBalanced ==
  /\ kpc # "idle" => (Len(histA) = count /\ Len(histB) = count /\ len = count)
  /\ kpc = "readA" => pipeA # <<>>
  /\ kpc = "readB" => pipeB # <<>>
  /\ kpc = "done" =>
       /\ Len(gotA) = count /\ Len(gotB) = count
       /\ gotA = histA /\ gotB = histB
       /\ pipeA = <<>> /\ pipeB = <<>>

C6_Witness ==
  /\ kpc = "done"
  /\ count = kVectorSize
  /\ Len(gotA) = kVectorSize /\ Len(gotB) = kVectorSize
  /\ pipeA = <<>> /\ pipeB = <<>>

\* C7 (as stated): whenever the number of values queued on an input pipe
\* differs from N, the kernel never reaches its output write and never
\* completes.
C7_AsStated ==
  ~ExactlyQueued => (kpc \notin {"write", "done"} /\ histC = <<>>)

\* C7 (amended): whenever fewer than N values are queued on at least one
\* input pipe, the kernel never reaches its output write and never
\* completes; a surplus of queued values does not suspend it.
C7_ShortfallSuspends ==
  Shortfall => (kpc \notin {"write", "done"} /\ histC = <<>>)

C7_Witness ==
  /\ Shortfall
  /\ Len(histA) = len
  /\ kpc = "readB"
  /\ pipeB = <<>>
  /\ ~ENABLED KernelNext

\* C8: a kernel invoked with len = 0 reads nothing from either input pipe,
\* keeps sum_total at 0 and writes the value 0 to the output pipe once.
C8_ZeroCount ==
  len = 0 =>
    /\ gotA = <<>> /\ gotB = <<>>
    /\ pipeA = histA /\ pipeB = histB
    /\ sum_total = 0
    /\ (kpc = "done" => histC = <<0>>)
    /\ (kpc # "done" => histC = <<>>)

C8_Witness ==
  /\ len = 0
  /\ kpc = "done"
  /\ pipeA # <<>> /\ pipeB # <<>>
  /\ histC = <<0>>

\* The value the kernel body computes from the first n values of as on
\* InputPipeA and of bs on InputPipeB, accumulated as lines 39-46 do.
RECURSIVE KernelTotal(_, _, _)
KernelTotal(as, bs, n) ==
  IF n = 0 THEN 0
  ELSE Accumulate(KernelTotal(as, bs, n - 1), PairSum(as[n], bs[n]))

\* C9: the value written by the kernel equals the value it computes when the
\* contents of the two input pipes are exchanged.
C9_SwapInputs ==
  (kpc = "done" /\ Len(histA) = Len(histB)) =>
    histC = <<KernelTotal(histB, histA, len)>>

C9_Witness ==
  /\ kpc = "done"
  /\ len = 2
  /\ Len(histA) = 2 /\ Len(histB) = 2
  /\ histA[1] # histB[1] /\ histA[2] # histB[2]
  /\ histC = <<KernelTotal(histB, histA, len)>>

\* C10: a runtime fault ends in termination with neither PASSED nor FAILED
\* printed and no exit code returned; a mismatch only clears passed, after
\* which FAILED is printed and main returns EXIT_FAILURE.
C10_FailureKinds ==
  /\ [](hpc \in {"caught", "terminated"} =>
          exit_code = <<>> /\ ~Printed("PASSED") /\ ~Printed("FAILED"))
  /\ [][hpc = "caught" => hpc' \in {"caught", "terminated"}]_vars
  /\ [][hpc = "terminated" => UNCHANGED vars]_vars
  /\ [][hpc' = "caught" /\ hpc # "caught" => hpc \in FaultSteps]_vars
  /\ [](hpc = "terminated" => Printed("diagnostic"))
  /\ [][hpc = "compare" /\ hpc' # "compare" =>
          /\ hpc' = "print"
          /\ passed' = (calc = expected_sum)
          /\ UNCHANGED <<count, i, a, b, heap, expected_sum, calc,
                         exit_code, kernelVars, pipeVars, launches>>]_vars
  /\ [](~passed => hpc \in {"print", "free", "return", "done"})
  /\ []((~passed /\ hpc \in {"free", "return", "done"}) =>
          Printed("FAILED") /\ ~Printed("PASSED"))
  /\ []((~passed /\ hpc = "done") => exit_code = <<EXIT_FAILURE>>)
  /\ [](exit_code # <<>> => hpc = "done" /\ exit_code = <<ExitCodeOf(passed)>>)

C10_Witness ==
  /\ hpc = "done"
  /\ ~passed
  /\ Printed("FAILED")
  /\ exit_code = <<EXIT_FAILURE>>

\* ------------------------------------------------------- fair runs
\* The steps main takes on its own, i.e. all but a thrown sycl::exception.
HostProgress ==
  \/ HostCreateQueue
  \/ HostPrintDevice
  \/ HostAlloc
  \/ HostFill
  \/ HostWriteA
  \/ HostWriteB
  \/ HostFillDone
  \/ HostLaunch
  \/ HostWait
  \/ HostRead
  \/ HostCompare
  \/ HostPrintVerdict
  \/ HostFree
  \/ HostReturn
  \/ HostTerminate

\* The host thread keeps executing main and the device keeps executing the
\* submitted kernel whenever they are able to.
FairSpec == Init /\ [][Next]_vars /\ WF_vars(HostProgress) /\ WF_vars(KernelNext)

\* A sycl::exception has been thrown.
Faulted == hpc \in {"caught", "terminated"}

\* C11: a run without a fault never deadlocks and terminates: no kernel
\* read finds its input pipe empty, the output write never waits, the host
\* read after e.wait() finds a value, and the run eventually prints PASSED
\* or FAILED and returns from main.
C11_Terminates ==
  /\ []((~Faulted /\ hpc # "done") => ENABLED (HostProgress \/ KernelNext))
  /\ [](~Faulted => (kpc \in {"loop", "readA", "readB", "write"} =>
                       ENABLED KernelNext))
  /\ []((hpc = "wait" /\ kpc = "done") => pipeC # <<>>)
  /\ [](hpc = "read" => ENABLED HostRead)
  /\ <>(Faulted \/ (/\ hpc = "done"
                    /\ (Printed("PASSED") \/ Printed("FAILED"))
                    /\ exit_code # <<>>))

C11_Witness ==
  /\ hpc = "done"
  /\ ~Faulted
  /\ count = kVectorSize
  /\ console = <<"device", "size", "PASSED">>
  /\ exit_code # <<>>

\* C12: the kernel drains the two input pipes in lockstep: the number of
\* reads of InputPipeA exceeds the number of reads of InputPipeB by 0 or 1,
\* the read of InputPipeA of each pair precedes the read of InputPipeB of
\* that pair, and the output write happens only after both counts equal len.
C12_Lockstep ==
  /\ [](Len(gotA) - Len(gotB) \in {0, 1})
  /\ [](Len(gotA) <= len /\ Len(gotB) <= len)
  /\ [](Len(gotB) = idx)
  /\ [][Len(gotA') # Len(gotA) =>
          /\ Len(gotA') = Len(gotA) + 1
          /\ Len(gotA) = Len(gotB)
          /\ gotB' = gotB]_vars
  /\ [][Len(gotB') # Len(gotB) =>
          /\ Len(gotB') = Len(gotB) + 1
          /\ Len(gotA) = Len(gotB) + 1
          /\ gotA' = gotA]_vars
  /\ [][histC' # histC => Len(gotA) = len /\ Len(gotB) = len]_vars
  /\ [](histC # <<>> => Len(gotA) = len /\ Len(gotB) = len)

C12_Witness ==
  /\ kpc = "readB"
  /\ Len(gotA) = 2
  /\ Len(gotB) = 1
  /\ histC = <<>>

\* The host positions between the allocation of a and b and their release.
BuffersLive ==
  {"fill", "writeA", "writeB", "launch", "wait", "read", "compare",
   "print", "free"}

\* C13: whenever main returns, with either exit code, both input buffers
\* have been released, and they are released only after the output value
\* has been read and compared; on the path that ends in std::terminate the
\* buffers are not released.
C13_BuffersReleased ==
  /\ [](hpc \in {"return", "done"} => heap = {})
  /\ [](exit_code # <<>> => heap = {})
  /\ [](hpc \in BuffersLive => heap = {"a", "b"})
  /\ [][heap' # heap =>
          \/ hpc = "alloc" /\ heap' = {"a", "b"}
          \/ /\ hpc = "free" /\ heap = {"a", "b"} /\ heap' = {}
             /\ Len(gotC) = 1 /\ calc = gotC[1]
             /\ passed = (calc = expected_sum)
             /\ (Printed("PASSED") \/ Printed("FAILED"))]_vars
  /\ [][(hpc \in BuffersLive /\ hpc' = "caught") => heap' = {"a", "b"}]_vars
  /\ [][Faulted => heap' = heap]_vars

C13_Witness ==
  /\ hpc = "done"
  /\ heap = {}
  /\ count = kVectorSize
  /\ Len(a) = kVectorSize /\ Len(b) = kVectorSize
  /\ exit_code = <<EXIT_FAILURE>>
  /\ gotC # <<expected_sum>>

\* C14: for the shipped size 256 no pair sum and no accumulation step, of
\* the host's expected_sum or of the kernel's sum_total, leaves the signed
\* 32-bit range; both running totals are non-decreasing and never exceed
\* 65536, and the kernel's total equals the host's expected sum.
C14_NoOverflow ==
  /\ [](count = kVectorSize =>
          /\ 0 <= expected_sum /\ expected_sum <= 65536
          /\ 0 <= sum_total /\ sum_total <= 65536
          /\ expected_sum <= INT_MAX /\ sum_total <= INT_MAX)
  /\ []((count = kVectorSize /\ hpc = "fill" /\ FillLoopCond(i, count)) =>
          /\ ~Overflows(AValue(i), BValue(i, count))
          /\ ~Overflows(expected_sum, AValue(i) + BValue(i, count)))
  /\ []((count = kVectorSize /\ kpc = "readB" /\ pipeB # <<>>) =>
          /\ ~Overflows(a_val, Head(pipeB))
          /\ ~Overflows(sum_total, a_val + Head(pipeB)))
  /\ [][count = kVectorSize =>
          /\ expected_sum' >= expected_sum
          /\ sum_total' >= sum_total]_vars
  /\ [][(count = kVectorSize /\ kpc = "readB" /\ kpc' = "loop") =>
          sum_total' = sum_total + (a_val + Head(pipeB))]_vars
  /\ []((count = kVectorSize /\ kpc = "done") =>
          /\ sum_total = expected_sum
          /\ histC = <<expected_sum>>)

C14_Witness ==
  /\ count = kVectorSize
  /\ kpc = "done"
  /\ hpc = "wait"
  /\ sum_total = 65536
  /\ expected_sum = 65536

====
